---- MODULE Spec2Model ----
(***************************************************************************)
(* Model of the AgeVerification component                                  *)
(* (src/src/components/AgeVerification.tsx): the six useState cells, the   *)
(* video ref, the asynchronous operations the handlers start               *)
(* (getUserMedia, FileReader, analyzeImageForAge, fetch) and the handlers  *)
(* themselves.  A user event is enabled exactly when the control that      *)
(* carries the handler is rendered and not disabled.  A setX(v) call is    *)
(* the assignment x' = v; values a handler reads from its closure are the  *)
(* values of the render that created the closure.                          *)
(***************************************************************************)
EXTENDS Integers, Sequences, FiniteSets

VARIABLES
    mounted,         \* the component is mounted (unmount cleanup not yet run)
    error,           \* useState<string | null>
    isProcessing,    \* useState(false)
    isCameraActive,  \* useState(false)
    selectedFile,    \* useState<File | null>
    previewImage,    \* useState<string | null>
    stream,          \* useState<MediaStream | null>
    srcObject,       \* videoRef.current.srcObject
    liveTracks,      \* ids of the created MediaStreams whose tracks are live
    created,         \* number of MediaStreams getUserMedia has returned
    cameraCalls,     \* number of startCamera invocations so far
    cameraPending,   \* getUserMedia promises not yet settled
    uploads,         \* number of files handed to handleFileUpload so far
    reads,           \* FileReader reads in flight (sequence of files)
    uncaught,        \* number of exceptions thrown outside any try/catch
    submissions,     \* number of processImage invocations that passed line 130
    calls,           \* processImage invocations suspended at an await
    fetches,         \* POST /api/photos requests issued: [id, image, age]
    navigations,     \* router.push invocations, per submission id
    finished         \* processImage invocations that ran their finally block

vars == <<mounted, error, isProcessing, isCameraActive, selectedFile,
          previewImage, stream, srcObject, liveTracks, created, cameraCalls,
          cameraPending, uploads, reads, uncaught, submissions, calls,
          fetches, navigations, finished>>

(***************************************************************************)
(* Bounds of the exploration.                                              *)
(***************************************************************************)
MaxCameraCalls == 1
MaxUploads == 2
MaxSubmissions == 2

(***************************************************************************)
(* Values.                                                                 *)
(***************************************************************************)
NULL == [null |-> TRUE]

\* a string is a sequence of characters, so that startsWith is computed
ImagePrefix == <<"i", "m", "a", "g", "e", "/">>
TypePng == ImagePrefix \o <<"p", "n", "g">>
TypeJpeg == ImagePrefix \o <<"j", "p", "e", "g">>
TypeText == <<"t", "e", "x", "t", "/", "p", "l", "a", "i", "n">>
TypeImageNoSlash == <<"i", "m", "a", "g", "e">>

MaxFileSize == 5 * 1024 * 1024

File(name, type, size) == [name |-> name, type |-> type, size |-> size]

\* the files the user may select
Files ==
    { File("a.png", TypePng, MaxFileSize),
      File("b.jpg", TypeJpeg, 1),
      File("big.png", TypePng, MaxFileSize + 1),
      File("notes.txt", TypeText, 1),
      File("big.txt", TypeText, MaxFileSize + 1),
      File("image", TypeImageNoSlash, 1) }

\* the accepted range, and the ages the classifier may return: one accepted
\* age and the two nearest refused ones
MinAge == 13
MaxAge == 17
Ages == {MinAge - 1, MinAge, MaxAge + 1}

\* user-facing messages
CameraError == [text |-> "Impossible d'acceder a la camera"]
CaptureError == [text |-> "Erreur lors de la capture de la photo"]
TypeError == [text |-> "Veuillez selectionner une image valide"]
SizeError == [text |-> "L'image est trop volumineuse"]
AnalysisError == [text |-> "Erreur lors de l'analyse de la photo"]
AgeError(detectedAge) ==
    [text |-> "Desole, l'age detecte ne correspond pas aux criteres requis",
     age |-> detectedAge]

StartsWith(s, prefix) ==
    /\ Len(s) >= Len(prefix)
    /\ SubSeq(s, 1, Len(prefix)) = prefix

\* FileReader.readAsDataURL: "data:<type>;base64,<bytes>"
DataURL(file) == [mime |-> file.type, data |-> file.name]

\* canvas.toDataURL('image/jpeg', 0.8) of the current frame of a stream
FrameDataURL(s) == [mime |-> TypeJpeg, data |-> s]

MediaStream(n) == [id |-> n]

Remove(seq, i) == SubSeq(seq, 1, i - 1) \o SubSeq(seq, i + 1, Len(seq))

(***************************************************************************)
(* What the component renders, from the conditional of the return value.   *)
(***************************************************************************)
PreviewRendered == mounted /\ previewImage # NULL
UploadRendered == mounted /\ previewImage = NULL /\ ~isCameraActive
VideoRendered == mounted /\ previewImage = NULL /\ isCameraActive

\* videoRef.current / canvasRef.current are set while the elements are rendered
VideoRefCurrent == VideoRendered

Init ==
    /\ mounted = TRUE
    /\ error = NULL
    /\ isProcessing = FALSE
    /\ isCameraActive = FALSE
    /\ selectedFile = NULL
    /\ previewImage = NULL
    /\ stream = NULL
    /\ srcObject = NULL
    /\ liveTracks = {}
    /\ created = 0
    /\ cameraCalls = 0
    /\ cameraPending = 0
    /\ uploads = 0
    /\ reads = <<>>
    /\ uncaught = 0
    /\ submissions = 0
    /\ calls = {}
    /\ fetches = {}
    /\ navigations = [id \in 1..MaxSubmissions |-> 0]
    /\ finished = {}

(***************************************************************************)
(* startCamera                                                             *)
(***************************************************************************)
\* click on "Utiliser la camera": the call suspends at await getUserMedia
StartCamera ==
    /\ UploadRendered /\ ~isProcessing
    /\ cameraCalls < MaxCameraCalls
    /\ cameraCalls' = cameraCalls + 1
    /\ cameraPending' = cameraPending + 1
    /\ UNCHANGED <<mounted, error, isProcessing, isCameraActive, selectedFile,
                   previewImage, stream, srcObject, liveTracks, created,
                   uploads, reads, uncaught, submissions, calls, fetches,
                   navigations, finished>>

\* variant of BindStream that binds the stream without testing videoRef.current
BindStreamUnguarded(mediaStream, refCurrent) ==
    /\ srcObject' = mediaStream
    /\ stream' = mediaStream
    /\ isCameraActive' = TRUE
    /\ error' = NULL
    /\ previewImage' = NULL

\* the stream is bound only when the video element is in the document
BindStream(mediaStream, refCurrent) ==
    IF refCurrent
    THEN /\ srcObject' = mediaStream
         /\ stream' = mediaStream
         /\ isCameraActive' = TRUE
         /\ error' = NULL
         /\ previewImage' = NULL
    ELSE UNCHANGED <<srcObject, stream, isCameraActive, error, previewImage>>

\* getUserMedia resolves with a new stream whose tracks are live
GetUserMediaResolve ==
    /\ cameraPending > 0
    /\ cameraPending' = cameraPending - 1
    /\ created' = created + 1
    /\ liveTracks' = liveTracks \cup {created + 1}
    /\ BindStream(MediaStream(created + 1), VideoRefCurrent)
    /\ UNCHANGED <<mounted, isProcessing, selectedFile, cameraCalls, uploads,
                   reads, uncaught, submissions, calls, fetches, navigations,
                   finished>>

\* getUserMedia rejects: the catch block
GetUserMediaReject ==
    /\ cameraPending > 0
    /\ cameraPending' = cameraPending - 1
    /\ error' = CameraError
    /\ UNCHANGED <<mounted, isProcessing, isCameraActive, selectedFile,
                   previewImage, stream, srcObject, liveTracks, created,
                   cameraCalls, uploads, reads, uncaught, submissions, calls,
                   fetches, navigations, finished>>

(***************************************************************************)
(* stopCamera, as run by a closure whose stream is closureStream and with  *)
(* videoRef.current set or not.                                            *)
(***************************************************************************)
\* what stopCamera reads and writes
CameraState ==
    [stream |-> stream, liveTracks |-> liveTracks, srcObject |-> srcObject,
     isCameraActive |-> isCameraActive]

\* variant of stopCameraResult that toggles isCameraActive
stopCameraResultToggles(st, closureStream, refCurrent) ==
    [stream |-> IF closureStream # NULL THEN NULL ELSE st.stream,
     liveTracks |-> IF closureStream # NULL
                    THEN st.liveTracks \ {closureStream.id}
                    ELSE st.liveTracks,
     srcObject |-> IF refCurrent THEN NULL ELSE st.srcObject,
     isCameraActive |-> ~st.isCameraActive]

\* the camera state after stopCamera has run on the camera state st
stopCameraResult(st, closureStream, refCurrent) ==
    [stream |-> IF closureStream # NULL THEN NULL ELSE st.stream,
     liveTracks |-> IF closureStream # NULL
                    THEN st.liveTracks \ {closureStream.id}
                    ELSE st.liveTracks,
     srcObject |-> IF refCurrent THEN NULL ELSE st.srcObject,
     isCameraActive |-> FALSE]

stopCamera(closureStream, refCurrent) ==
    LET after == stopCameraResult(CameraState, closureStream, refCurrent)
    IN  /\ stream' = after.stream
        /\ liveTracks' = after.liveTracks
        /\ srcObject' = after.srcObject
        /\ isCameraActive' = after.isCameraActive

\* click on "Arreter la camera" (not disabled while processing)
StopCameraClick ==
    /\ VideoRendered
    /\ stopCamera(stream, VideoRefCurrent)
    /\ UNCHANGED <<mounted, error, isProcessing, selectedFile, previewImage,
                   created, cameraCalls, cameraPending, uploads, reads,
                   uncaught, submissions, calls, fetches, navigations,
                   finished>>

\* the cleanup of useEffect(..., []): the stopCamera of the first render,
\* whose stream is the initial null; the video ref, when the element was
\* rendered, is detached before or after the cleanup depending on the
\* React version
Unmount ==
    /\ mounted
    /\ mounted' = FALSE
    /\ \E refCurrent \in (IF VideoRendered THEN BOOLEAN ELSE {FALSE}) :
           stopCamera(NULL, refCurrent)
    /\ UNCHANGED <<error, isProcessing, selectedFile, previewImage, created,
                   cameraCalls, cameraPending, uploads, reads, uncaught,
                   submissions, calls, fetches, navigations, finished>>

(***************************************************************************)
(* capturePhoto                                                            *)
(***************************************************************************)
\* click on "Capturer la photo"; getContext('2d') may return null
CapturePhoto ==
    /\ VideoRendered /\ ~isProcessing
    /\ IF ~VideoRefCurrent
       THEN UNCHANGED <<previewImage, error, liveTracks, stream, srcObject,
                        isCameraActive>>
       ELSE \E context \in BOOLEAN :
              IF context
              THEN /\ previewImage' = FrameDataURL(srcObject)
                   /\ stopCamera(stream, VideoRefCurrent)
                   /\ UNCHANGED error
              ELSE /\ error' = CaptureError
                   /\ UNCHANGED <<previewImage, liveTracks, stream, srcObject,
                                  isCameraActive>>
    /\ UNCHANGED <<mounted, isProcessing, selectedFile, created, cameraCalls,
                   cameraPending, uploads, reads, uncaught, submissions,
                   calls, fetches, navigations, finished>>

(***************************************************************************)
(* handleFileUpload                                                        *)
(***************************************************************************)
\* variant of validate without the size check
validateTypeOnly(file) ==
    IF ~StartsWith(file.type, ImagePrefix) THEN TypeError
    ELSE NULL

\* variant of validate whose size check also rejects exactly MaxFileSize
validateSizeInclusive(file) ==
    IF ~StartsWith(file.type, ImagePrefix) THEN TypeError
    ELSE IF file.size >= MaxFileSize THEN SizeError
    ELSE NULL

\* the two checks on the selected file, in order; NULL when both pass
validate(file) ==
    IF ~StartsWith(file.type, ImagePrefix) THEN TypeError
    ELSE IF file.size > MaxFileSize THEN SizeError
    ELSE NULL

\* change event of the file input; file = NULL when e.target.files is empty
HandleFileUpload ==
    /\ UploadRendered /\ ~isProcessing
    /\ uploads < MaxUploads
    /\ \E file \in Files \cup {NULL} :
         IF file = NULL
         THEN UNCHANGED <<uploads, error, selectedFile, reads>>
         ELSE /\ uploads' = uploads + 1
              /\ selectedFile' = file
              /\ error' = validate(file)
              /\ reads' = IF validate(file) = NULL
                          THEN Append(reads, file)
                          ELSE reads
    /\ UNCHANGED <<mounted, isProcessing, isCameraActive, previewImage,
                   stream, srcObject, liveTracks, created, cameraCalls,
                   cameraPending, uncaught, submissions, calls, fetches,
                   navigations, finished>>

\* reader.onload: event.target.result is the data URL, a non-empty string
ReaderOnload ==
    /\ \E i \in 1..Len(reads) :
         /\ previewImage' = DataURL(reads[i])
         /\ reads' = Remove(reads, i)
    /\ UNCHANGED <<mounted, error, isProcessing, isCameraActive, selectedFile,
                   stream, srcObject, liveTracks, created, cameraCalls,
                   cameraPending, uploads, uncaught, submissions, calls,
                   fetches, navigations, finished>>

\* reader.onerror: the throw happens in the event handler, outside the
\* try/catch of handleFileUpload, which has already returned
ReaderOnerror ==
    /\ \E i \in 1..Len(reads) : reads' = Remove(reads, i)
    /\ uncaught' = uncaught + 1
    /\ UNCHANGED <<mounted, error, isProcessing, isCameraActive, selectedFile,
                   previewImage, stream, srcObject, liveTracks, created,
                   cameraCalls, cameraPending, uploads, submissions, calls,
                   fetches, navigations, finished>>

(***************************************************************************)
(* processImage                                                            *)
(***************************************************************************)
\* variant of InRange with the upper bound off by one
InRangeUpTo18(detectedAge) ==
    detectedAge >= MinAge /\ detectedAge <= MaxAge + 1

\* variant of InRange that accepts the age just below the range
InRangeFrom12(detectedAge) ==
    detectedAge >= MinAge - 1 /\ detectedAge <= MaxAge

InRange(detectedAge) == detectedAge >= MinAge /\ detectedAge <= MaxAge

Analyzing == {c \in calls : c.pc = "analyzeImageForAge"}
Fetching == {c \in calls : c.pc = "fetch"}

\* variant of SubmitEnabled for a button without disabled={isProcessing}
SubmitEnabledNotDisabled == PreviewRendered

\* the "Valider la photo" button is rendered with the preview and disabled
\* while isProcessing
SubmitEnabled == PreviewRendered /\ ~isProcessing

\* variant of processImage without the test of line 130
processImageUnguarded ==
    /\ submissions' = submissions + 1
    /\ isProcessing' = TRUE
    /\ error' = NULL
    /\ calls' = calls \cup {[id |-> submissions + 1,
                             pc |-> "analyzeImageForAge",
                             image |-> previewImage]}

\* processImage up to its first await; the closure's previewImage is the
\* one of the current render
processImage ==
    IF previewImage = NULL
    THEN UNCHANGED <<submissions, isProcessing, error, calls>>
    ELSE /\ submissions' = submissions + 1
         /\ isProcessing' = TRUE
         /\ error' = NULL
         /\ calls' = calls \cup {[id |-> submissions + 1,
                                  pc |-> "analyzeImageForAge",
                                  image |-> previewImage]}

\* click on "Valider la photo"
ProcessImage ==
    /\ SubmitEnabled
    /\ submissions < MaxSubmissions
    /\ processImage
    /\ UNCHANGED <<mounted, isCameraActive, selectedFile, previewImage,
                   stream, srcObject, liveTracks, created, cameraCalls,
                   cameraPending, uploads, reads, uncaught, fetches,
                   navigations, finished>>

\* variant of Finally that does not reset isProcessing
FinallyKeepsProcessing(c, outcome) ==
    /\ UNCHANGED isProcessing
    /\ selectedFile' = NULL
    /\ calls' = calls \ {c}
    /\ finished' = finished \cup {[id |-> c.id, image |-> c.image,
                                   outcome |-> outcome]}

\* the finally block of the invocation c
Finally(c, outcome) ==
    /\ isProcessing' = FALSE
    /\ selectedFile' = NULL
    /\ calls' = calls \ {c}
    /\ finished' = finished \cup {[id |-> c.id, image |-> c.image,
                                   outcome |-> outcome]}

\* analyzeImageForAge resolves with detectedAge
AnalyzeResolve ==
    /\ \E c \in Analyzing, detectedAge \in Ages :
         IF InRange(detectedAge)
         THEN /\ fetches' = fetches \cup {[id |-> c.id, image |-> c.image,
                                           age |-> detectedAge]}
              /\ calls' = (calls \ {c}) \cup {[id |-> c.id, pc |-> "fetch",
                                               image |-> c.image,
                                               age |-> detectedAge]}
              /\ UNCHANGED <<error, isProcessing, selectedFile, finished>>
         ELSE /\ error' = AgeError(detectedAge)
              /\ Finally(c, [kind |-> "rejected", age |-> detectedAge])
              /\ UNCHANGED fetches
    /\ UNCHANGED <<mounted, isCameraActive, previewImage, stream, srcObject,
                   liveTracks, created, cameraCalls, cameraPending, uploads,
                   reads, uncaught, submissions, navigations>>

\* variant of AnalyzeReject for a processImage without the finally block
AnalyzeRejectNoFinally ==
    /\ \E c \in Analyzing :
         /\ error' = AnalysisError
         /\ calls' = calls \ {c}
    /\ UNCHANGED <<mounted, isProcessing, isCameraActive, selectedFile,
                   previewImage, stream, srcObject, liveTracks, created,
                   cameraCalls, cameraPending, uploads, reads, uncaught,
                   submissions, fetches, navigations, finished>>

\* analyzeImageForAge rejects: the catch block, then finally
AnalyzeReject ==
    /\ \E c \in Analyzing :
         /\ error' = AnalysisError
         /\ Finally(c, [kind |-> "analysisFailed"])
    /\ UNCHANGED <<mounted, isCameraActive, previewImage, stream, srcObject,
                   liveTracks, created, cameraCalls, cameraPending, uploads,
                   reads, uncaught, submissions, fetches, navigations>>

\* fetch resolves (whatever the HTTP status): alert, router.push, finally
FetchResolve ==
    /\ \E c \in Fetching :
         /\ navigations' = [navigations EXCEPT ![c.id] = @ + 1]
         /\ Finally(c, [kind |-> "confirmed", age |-> c.age])
    /\ UNCHANGED <<mounted, error, isCameraActive, previewImage, stream,
                   srcObject, liveTracks, created, cameraCalls, cameraPending,
                   uploads, reads, uncaught, submissions, fetches>>

\* fetch rejects (network failure): the same catch block, then finally
FetchReject ==
    /\ \E c \in Fetching :
         /\ error' = AnalysisError
         /\ Finally(c, [kind |-> "persistFailed", age |-> c.age])
    /\ UNCHANGED <<mounted, isCameraActive, previewImage, stream, srcObject,
                   liveTracks, created, cameraCalls, cameraPending, uploads,
                   reads, uncaught, submissions, fetches, navigations>>

(***************************************************************************)
(* resetCapture: click on "Reprendre la photo" (disabled while processing) *)
(***************************************************************************)
ResetCapture ==
    /\ PreviewRendered /\ ~isProcessing
    /\ previewImage' = NULL
    /\ selectedFile' = NULL
    /\ error' = NULL
    /\ UNCHANGED <<mounted, isProcessing, isCameraActive, stream, srcObject,
                   liveTracks, created, cameraCalls, cameraPending, uploads,
                   reads, uncaught, submissions, calls, fetches, navigations,
                   finished>>

\* The buttons that carry stopCamera and capturePhoto belong to the video
\* branch, rendered only while isCameraActive.  isCameraActive is set only
\* by BindStream under videoRef.current, which is set only in that branch:
\* VideoNeverRendered is an invariant, StopCameraClick and CapturePhoto are
\* never enabled, and NextAll (with them) and Next (without them) have the
\* same reachable states.
VideoNeverRendered == ~VideoRendered

Next ==
    \/ StartCamera
    \/ GetUserMediaResolve
    \/ GetUserMediaReject
    \/ Unmount
    \/ HandleFileUpload
    \/ ReaderOnerror
    \/ ReaderOnload
    \/ ProcessImage
    \/ AnalyzeResolve
    \/ AnalyzeReject
    \/ FetchResolve
    \/ FetchReject
    \/ ResetCapture

NextAll == Next \/ StopCameraClick \/ CapturePhoto

Spec == Init /\ [][Next]_vars

SpecAll == Init /\ [][NextAll]_vars

\* every analyzeImageForAge promise and every fetch promise settles
FairSpec ==
    /\ Spec
    /\ WF_vars(AnalyzeResolve \/ AnalyzeReject)
    /\ WF_vars(FetchResolve \/ FetchReject)

(***************************************************************************)
(* stopCamera and processImage called as functions, whatever is rendered,  *)
(* from the states a render can hold: a stream bound or not, a preview     *)
(* held or not.                                                            *)
(***************************************************************************)
InitDirect ==
    /\ mounted = TRUE
    /\ error \in {NULL, CameraError}
    /\ isProcessing \in BOOLEAN
    /\ isCameraActive \in BOOLEAN
    /\ selectedFile = NULL
    /\ previewImage \in {NULL, DataURL(File("a.png", TypePng, MaxFileSize))}
    /\ created \in 0..(MaxCameraCalls + 1)
    /\ liveTracks = 1..created
    /\ stream \in {NULL} \cup {MediaStream(n) : n \in 1..created}
    /\ srcObject \in {NULL, stream}
    /\ cameraCalls = 0
    /\ cameraPending = 0
    /\ uploads = 0
    /\ reads = <<>>
    /\ uncaught = 0
    /\ submissions = 0
    /\ calls = {}
    /\ fetches = {}
    /\ navigations = [id \in 1..MaxSubmissions |-> 0]
    /\ finished = {}

\* stopCamera() called by the closure of the current render
StopCameraCall ==
    /\ stopCamera(stream, VideoRefCurrent)
    /\ UNCHANGED <<mounted, error, isProcessing, selectedFile, previewImage,
                   created, cameraCalls, cameraPending, uploads, reads,
                   uncaught, submissions, calls, fetches, navigations,
                   finished>>

\* processImage() called by the closure of the current render
ProcessImageCall ==
    /\ submissions < MaxSubmissions
    /\ processImage
    /\ UNCHANGED <<mounted, isCameraActive, selectedFile, previewImage,
                   stream, srcObject, liveTracks, created, cameraCalls,
                   cameraPending, uploads, reads, uncaught, fetches,
                   navigations, finished>>

NextDirect == StopCameraCall \/ ProcessImageCall

SpecDirect == InitDirect /\ [][NextDirect]_vars

TypeOK ==
    /\ mounted \in BOOLEAN
    /\ isProcessing \in BOOLEAN
    /\ isCameraActive \in BOOLEAN
    /\ selectedFile \in Files \cup {NULL}
    /\ cameraPending \in 0..MaxCameraCalls
    /\ Len(reads) <= MaxUploads

C2_StreamsTracked ==
    \A id \in 1..created :
        \/ stream # NULL /\ stream.id = id
        \/ id \notin liveTracks

\* C3: right after the unmount cleanup no track of any stream acquired by
\* the component is live
C3_TeardownReleases ==
    [][(mounted /\ ~mounted') => liveTracks' = {}]_vars

(***************************************************************************)
(* Classification                                                          *)
(***************************************************************************)
\* C4: at most one analyzeImageForAge call is in flight at any time
C4_OneClassification == Cardinality(Analyzing) <= 1

\* a second submission is being classified after an earlier one concluded
C4_Witness ==
    /\ Cardinality(Analyzing) = 1
    /\ finished # {}

\* the classifier returned an age for the concluded invocation f
Classified(f) == "age" \in DOMAIN f.outcome

\* C5: for a submission whose classifier result is in 13..17, the persistence
\* request carries exactly the submitted image and that age, and the
\* navigation is invoked exactly once
C5_InRangePersistsAndNavigatesOnce ==
    \A f \in finished :
        (Classified(f) /\ f.outcome.age \in MinAge..MaxAge) =>
            /\ [id |-> f.id, image |-> f.image, age |-> f.outcome.age]
                   \in fetches
            /\ \A r \in fetches :
                   r.id = f.id => r.image = f.image /\ r.age = f.outcome.age
            /\ navigations[f.id] = 1

\* C6: when processImage finishes on the success path the held image is
\* discarded
C6_SuccessDiscardsImage ==
    [][\A f \in finished' \ finished :
           f.outcome.kind = "confirmed" => previewImage' = NULL]_vars

\* C7: once the classifier has returned an in-range age, the invocation
\* ends with no error attached by it and with the navigation invoked,
\* whether the persistence request succeeded or failed
C7_PersistenceFireAndForget ==
    [][\A f \in finished' \ finished :
           (Classified(f) /\ f.outcome.age \in MinAge..MaxAge) =>
               /\ error' = error
               /\ navigations'[f.id] = 1]_vars

\* C8: when the classifier returns an age outside 13..17 the invocation ends
\* with isProcessing false, the held image kept, an error carrying the
\* detected age attached, and no persistence request and no navigation for
\* that submission
C8_OutOfRangeRejected ==
    [][\A f \in finished' \ finished :
           (Classified(f) /\ (f.outcome.age < 13 \/ f.outcome.age > 17)) =>
               /\ f.outcome.kind = "rejected"
               /\ ~isProcessing'
               /\ previewImage' # NULL /\ previewImage' = previewImage
               /\ "age" \in DOMAIN error' /\ error'.age = f.outcome.age
               /\ \A r \in fetches' : r.id # f.id
               /\ navigations'[f.id] = 0]_vars

\* a submission was rejected for its age and its image is still on screen
C8_Witness ==
    \E f \in finished :
        /\ f.outcome.kind = "rejected"
        /\ error = AgeError(f.outcome.age)
        /\ previewImage = f.image
        /\ ~isProcessing

\* C9: when the classifier call fails the invocation ends with isProcessing
\* false, the generic error attached and the held image kept, and the submit
\* button of a mounted component is enabled again
C9_FailureAllowsRetry ==
    [][\A f \in finished' \ finished :
           f.outcome.kind = "analysisFailed" =>
               /\ ~isProcessing'
               /\ error' = AnalysisError
               /\ previewImage' # NULL /\ previewImage' = previewImage
               /\ mounted' => SubmitEnabled']_vars

\* after a failed classification the same image is being classified again
C9_Witness ==
    \E f \in finished, c \in Analyzing :
        /\ f.outcome.kind = "analysisFailed"
        /\ c.id > f.id
        /\ c.image = f.image
        /\ isProcessing

(***************************************************************************)
(* Upload validation                                                       *)
(***************************************************************************)
\* C10: a file whose type does not start with "image/" gets the type error,
\* whatever its size; otherwise a file larger than 5 MiB gets the size
\* error; otherwise (5 MiB exactly included) it is accepted and read
C10_ValidationOrdered ==
    [][uploads' = uploads + 1 =>
           LET file == selectedFile'
               t == file.type
               isImage == /\ Len(t) >= 6
                          /\ <<t[1], t[2], t[3], t[4], t[5], t[6]>>
                                 = <<"i", "m", "a", "g", "e", "/">>
           IN  /\ ~isImage =>
                      error' = TypeError /\ reads' = reads
               /\ (isImage /\ file.size > 5 * 1024 * 1024) =>
                      error' = SizeError /\ reads' = reads
               /\ (isImage /\ file.size <= 5 * 1024 * 1024) =>
                      error' = NULL /\ reads' = Append(reads, file)]_vars

\* an image of exactly 5 MiB has been accepted and is being read
C10_Witness ==
    /\ selectedFile # NULL
    /\ selectedFile.size = 5 * 1024 * 1024
    /\ error = NULL
    /\ \E i \in 1..Len(reads) : reads[i] = selectedFile

\* the files that are not images or are larger than 5 MiB
InvalidFiles ==
    {f \in Files :
        \/ Len(f.type) < 6
        \/ <<f.type[1], f.type[2], f.type[3], f.type[4], f.type[5],
             f.type[6]>> # <<"i", "m", "a", "g", "e", "/">>
        \/ f.size > 5 * 1024 * 1024}

\* C11: an upload that fails validation attaches the validation error in the
\* same step and starts no read; no read, preview, classifier call or
\* persistence request ever carries a file that fails validation
C11_InvalidUploadStopsEarly ==
    /\ [][(uploads' = uploads + 1 /\ selectedFile' \in InvalidFiles) =>
              /\ error' \in {TypeError, SizeError}
              /\ reads' = reads
              /\ previewImage' = previewImage
              /\ calls' = calls]_vars
    /\ [](\A f \in InvalidFiles :
              /\ \A i \in 1..Len(reads) : reads[i] # f
              /\ previewImage # DataURL(f)
              /\ \A c \in calls : c.image # DataURL(f)
              /\ \A r \in fetches : r.image # DataURL(f))

\* an oversized image was just refused: error attached, nothing being read
C11_Witness ==
    /\ selectedFile \in InvalidFiles
    /\ selectedFile.size > 5 * 1024 * 1024
    /\ error = SizeError
    /\ reads = <<>>
    /\ previewImage = NULL
    /\ calls = {}

(***************************************************************************)
(* Teardown                                                                *)
(***************************************************************************)
\* C12: a processImage invocation that resumes after the unmount writes none
\* of error, isProcessing, selectedFile, previewImage, stream
C12_NoWriteAfterTeardown ==
    [][(~mounted /\ calls' # calls) =>
           UNCHANGED <<error, isProcessing, selectedFile, previewImage,
                       stream>>]_vars

\* C13: a stopCamera call ends with the handle null, the handle's tracks
\* stopped and isCameraActive false, also when there was no handle; a second
\* call right after it, from the same render or from the next one, leaves
\* that state as it is
C13_ReleaseIdempotent ==
    [][submissions' = submissions =>
           /\ stream' = NULL
           /\ ~isCameraActive'
           /\ stream # NULL => stream.id \notin liveTracks'
           /\ \A closureStream \in {stream, stream'},
                 refCurrent \in {VideoRefCurrent, VideoRefCurrent'} :
                  stopCameraResult(CameraState', closureStream, refCurrent)
                      = CameraState']_vars

\* a bound stream has been released
C13_Witness ==
    /\ \E id \in 1..created : id \notin liveTracks
    /\ stream = NULL
    /\ srcObject = NULL
    /\ ~isCameraActive

\* C14: isProcessing becomes true and a classifier call starts only in a
\* state where an image is held, and with that image; processImage called
\* with no image held starts no call and changes nothing
C14_ProcessingNeedsImage ==
    [][/\ ((~isProcessing /\ isProcessing') \/ calls' # calls) =>
              /\ previewImage # NULL
              /\ \A c \in calls' \ calls : c.image = previewImage
       /\ previewImage = NULL =>
              UNCHANGED <<isProcessing, error, selectedFile, previewImage,
                          submissions, calls, fetches, navigations,
                          finished>>]_vars

\* the held image is being classified
C14_Witness ==
    /\ isProcessing
    /\ previewImage # NULL
    /\ \E c \in Analyzing : c.image = previewImage

(***************************************************************************)
(* Events that complete while a classification is pending                  *)
(***************************************************************************)
\* C15: while a classifier call is pending no step changes the held image
\* or the camera handle
C15_ProcessingExclusive ==
    [][(Analyzing # {} /\ Analyzing' = Analyzing) =>
           UNCHANGED <<previewImage, stream>>]_vars

\* C16: entering Processing clears the error, and no error is attached
\* while a classifier call is pending
C16_NoErrorWhileProcessing ==
    /\ [][(~isProcessing /\ isProcessing') => error' = NULL]_vars
    /\ [](Analyzing # {} => error = NULL)

\* C17: when getUserMedia resolves while the start button is on screen, the
\* returned stream becomes the handle, isCameraActive becomes true and the
\* error and the preview are cleared
C17_AcquireActivatesCamera ==
    [][(created' = created + 1 /\ UploadRendered /\ ~isProcessing) =>
           /\ stream' = MediaStream(created')
           /\ isCameraActive'
           /\ error' = NULL
           /\ previewImage' = NULL]_vars

\* C18: a FileReader read that completes throws nothing outside a handler
\* and leaves selectedFile null; one that produced no image leaves an error
\* attached
C18_DecodeFailureHandled ==
    [][Len(reads') < Len(reads) =>
           /\ uncaught' = uncaught
           /\ selectedFile' = NULL
           /\ previewImage' = NULL => error' # NULL]_vars

(***************************************************************************)
(* Navigation                                                              *)
(***************************************************************************)
\* C20: router.push is invoked only by a submission whose classifier result
\* is in 13..17 and whose persistence request, issued for that result, has
\* just completed; a submission that is still being classified, was rejected
\* for its age or whose classifier call failed has no navigation
C20_NavigationNeedsPassingResult ==
    /\ [][\A id \in DOMAIN navigations :
             navigations'[id] # navigations[id] =>
                 /\ navigations'[id] = navigations[id] + 1
                 /\ \E c \in calls :
                        /\ c.id = id
                        /\ c.pc = "fetch"
                        /\ c.age \in MinAge..MaxAge
                        /\ [id |-> id, image |-> c.image, age |-> c.age]
                               \in fetches
                        /\ c \notin calls'
                        /\ [id |-> id, image |-> c.image,
                            outcome |-> [kind |-> "confirmed", age |-> c.age]]
                               \in finished']_vars
    /\ [](/\ \A c \in calls :
               c.pc = "analyzeImageForAge" => navigations[c.id] = 0
          /\ \A f \in finished :
               f.outcome.kind \in {"rejected", "analysisFailed"} =>
                   navigations[f.id] = 0
          /\ \A id \in DOMAIN navigations :
               navigations[id] > 0 => \E r \in fetches : r.id = id)

\* one submission has navigated and a later one was turned down or failed
\* without navigating
C20_Witness ==
    \E f, g \in finished :
        /\ f.outcome.kind = "confirmed"
        /\ navigations[f.id] = 1
        /\ g.outcome.kind \in {"rejected", "analysisFailed"}
        /\ g.id > f.id
        /\ navigations[g.id] = 0

(***************************************************************************)
(* Progress                                                                *)
(***************************************************************************)
\* C19: if every classifier call and every persistence request settles,
\* isProcessing, once true, becomes false again
C19_ProcessingEnds == isProcessing ~> ~isProcessing

\* processing has ended after a confirmed and after an unconfirmed submission
C19_Witness ==
    /\ ~isProcessing
    /\ calls = {}
    /\ \E f, g \in finished :
           /\ f.outcome.kind = "confirmed"
           /\ g.outcome.kind \in {"rejected", "analysisFailed", "persistFailed"}

====
